---- MODULE Spec2Model ----
(***************************************************************************)
(* Model of the intersection simulation (src/traffic_simulation.py) and of *)
(* the perception thread that is attached to it (src/new.py).              *)
(*                                                                         *)
(* Time is the wall clock read by time.time(), counted in whole seconds.   *)
(* A frame is what the loop draws: the vehicles (place, direction, type)   *)
(* and the states of the lights.  A vehicle carries an id, which stands    *)
(* for the identity of the Python object.  Distances are compared squared  *)
(* and doubled, so that (length_a + length_b) / 2 needs no fractions.      *)
(* The display countdown TrafficLight.time_to_change, the analytics record *)
(* and the drawing calls are not part of the model.                        *)
(***************************************************************************)
EXTENDS Integers, Sequences, FiniteSets

VARIABLES
    vehicles,                \* Simulation.vehicles
    traffic_lights,          \* Simulation.traffic_lights (states of the 4 lights)
    current_phase,           \* Simulation.current_phase
    switching_phase,         \* Simulation.switching_phase
    phase_start_time,        \* Simulation.phase_start_time
    yellow_start_time,       \* Simulation.yellow_start_time
    emergency_vehicles,      \* Simulation.emergency_vehicles
    vehicle_counts,          \* Simulation.vehicle_counts
    frame_queue,             \* Simulation.frame_queue (Queue(maxsize=1))
    traffic_decision_queue,  \* Simulation.traffic_decision_queue (Queue(maxsize=1))
    traffic_stats,           \* new.py traffic_stats: signal, last_switch_time
    outputFrame,             \* new.py outputFrame: << >> for None, or << the frame >>
    now,                     \* time.time()
    ret,                     \* value returned by the last calculate_signal_phase call
    pc,                      \* statement of the loop of run the simulation thread is at
    reply,                   \* << the last return value of get_analytics_data >>
    analytics                \* Simulation.analytics: average_wait_time, congestion_points

vars == <<vehicles, traffic_lights, current_phase, switching_phase,
          phase_start_time, yellow_start_time, emergency_vehicles,
          vehicle_counts, frame_queue, traffic_decision_queue, traffic_stats,
          outputFrame, now, ret, pc, reply, analytics>>

simVars == <<vehicles, traffic_lights, vehicle_counts, frame_queue>>
ctlVars == <<current_phase, switching_phase, phase_start_time,
             yellow_start_time, emergency_vehicles, ret>>
aiVars == <<traffic_decision_queue, traffic_stats, outputFrame>>
webVars == <<pc, reply>>

(***************************************************************************)
(* Bounds of the model                                                     *)
(***************************************************************************)
MaxTravel == 2         \* units a vehicle travels while the other threads run
MaxTrafficTravel == 101 \* units a vehicle travels when the loop runs alone
MaxVehicles == 2       \* vehicles alive at the same time
MaxTime == 47          \* seconds of wall clock explored with the loop
MaxApiTime == 14       \* seconds of wall clock explored with the controller
MaxCount == 2          \* vehicles the detector reports per side
NearRange == 3         \* half-width of the position windows of the vehicle inputs
MaxWait == 2           \* ticks a stopped vehicle is followed
MaxThreadTime == 60    \* seconds of wall clock explored with the threads interleaved
EvalRange == 1         \* seconds around the thresholds at which the controller is applied
PairRange == 1         \* units around min_distance at which a second vehicle is put
SpawnRange == 2        \* units around MIN_VEHICLE_SPACING a vehicle has travelled at a spawn
ExitRange == 4         \* units a vehicle has left to the exit margin
CrossRange == 3        \* units around the stop line a crossing vehicle has travelled
MaxCrossTravel == 360  \* units a vehicle travels when it crosses the intersection

(***************************************************************************)
(* Program constants                                                       *)
(***************************************************************************)
WINDOW_WIDTH == 800
WINDOW_HEIGHT == 800
ROAD_WIDTH == 100
MIN_VEHICLE_SPACING == 50
SIGNAL_MIN_TIME == 10
SIGNAL_MAX_TIME == 45
YELLOW_TIME == 3
MIN_SIGNAL_DURATION == 30
LOOK_AHEAD == 100
EXIT_MARGIN == 100
SPAWN_OFFSET == 50
QUEUE_MAXSIZE == 1
CONGESTION_WAIT == 30   \* update_analytics: v.waiting_time > 30

Directions == {"right", "left", "up", "down"}
VehicleTypes == {"car", "bus", "truck"}

\* VEHICLE_TYPES[t]['length']
Length(t) == CASE t = "car" -> 40 [] t = "bus" -> 60 [] t = "truck" -> 55

\* VEHICLE_TYPES[t]['speed']
Speed(t) == CASE t = "car" -> 3 [] t = "bus" -> 2 [] t = "truck" -> 2

Abs(n) == IF n < 0 THEN 0 - n ELSE n

Horizontal(d) == d \in {"left", "right"}

Opposite(p) == IF p = "horizontal" THEN "vertical" ELSE "horizontal"

(***************************************************************************)
(* TrafficLight and Simulation.__init__                                    *)
(***************************************************************************)
NewLight(x, y, d) == [position |-> <<x, y>>, direction |-> d, state |-> "red"]

InitialLights ==
    << NewLight(WINDOW_WIDTH \div 2 - ROAD_WIDTH, WINDOW_HEIGHT \div 2 - ROAD_WIDTH, "horizontal"),
       NewLight(WINDOW_WIDTH \div 2 + ROAD_WIDTH, WINDOW_HEIGHT \div 2 + ROAD_WIDTH, "horizontal"),
       NewLight(WINDOW_WIDTH \div 2 - ROAD_WIDTH, WINDOW_HEIGHT \div 2 + ROAD_WIDTH, "vertical"),
       NewLight(WINDOW_WIDTH \div 2 + ROAD_WIDTH, WINDOW_HEIGHT \div 2 - ROAD_WIDTH, "vertical") >>

NewVehicle(id, x, y, d, t) ==
    [id |-> id, x |-> x, y |-> y, direction |-> d, vehicle_type |-> t,
     stopped |-> FALSE, waiting_time |-> 0]

ZeroCounts == [t \in VehicleTypes |-> [s \in {"left", "right"} |-> 0]]

InitialStats == [signal |-> "LEFT", last_switch_time |-> 0]

\* self.analytics as __init__ builds it: the two fields computed from the vehicles
InitialAnalytics == [average_wait_time |-> 0, congestion_points |-> << >>]

Init ==
    /\ vehicles = << >>
    /\ traffic_lights = InitialLights
    /\ current_phase = "horizontal"
    /\ switching_phase = FALSE
    /\ phase_start_time = 0
    /\ yellow_start_time = 0
    /\ emergency_vehicles = << >>
    /\ vehicle_counts = ZeroCounts
    /\ frame_queue = << >>
    /\ traffic_decision_queue = << >>
    /\ traffic_stats = InitialStats
    /\ outputFrame = << >>
    /\ now = 0
    /\ ret = "none"
    /\ pc = "spawn"
    /\ reply = << >>
    /\ analytics = InitialAnalytics

(***************************************************************************)
(* Vehicle                                                                 *)
(***************************************************************************)
\* LightStops with the ends of the stop zone included (<= for <)
LightStops_Inclusive(v, light) ==
    /\ light.state = "red"
    /\ IF Horizontal(v.direction) /\ light.direction = "horizontal"
       THEN \/ v.direction = "right" /\ v.x <= light.position[1]
                                     /\ v.x >= light.position[1] - LOOK_AHEAD
            \/ v.direction = "left" /\ v.x >= light.position[1]
                                    /\ v.x <= light.position[1] + LOOK_AHEAD
       ELSE /\ ~Horizontal(v.direction) /\ light.direction = "vertical"
            /\ \/ v.direction = "down" /\ v.y <= light.position[2]
                                       /\ v.y >= light.position[2] - LOOK_AHEAD
               \/ v.direction = "up" /\ v.y >= light.position[2]
                                     /\ v.y <= light.position[2] + LOOK_AHEAD

\* One light's contribution to Vehicle.should_stop: the body of the loop.
LightStops(v, light) ==
    /\ light.state = "red"
    /\ IF Horizontal(v.direction) /\ light.direction = "horizontal"
       THEN \/ v.direction = "right" /\ v.x < light.position[1]
                                     /\ v.x > light.position[1] - LOOK_AHEAD
            \/ v.direction = "left" /\ v.x > light.position[1]
                                    /\ v.x < light.position[1] + LOOK_AHEAD
       ELSE /\ ~Horizontal(v.direction) /\ light.direction = "vertical"
            /\ \/ v.direction = "down" /\ v.y < light.position[2]
                                       /\ v.y > light.position[2] - LOOK_AHEAD
               \/ v.direction = "up" /\ v.y > light.position[2]
                                     /\ v.y < light.position[2] + LOOK_AHEAD

\* Vehicle.should_stop
should_stop(v, lights) == \E i \in 1..Len(lights) : LightStops(v, lights[i])

\* Vehicle.is_at_intersection
is_at_intersection(v) ==
    /\ Abs(v.x - WINDOW_WIDTH \div 2) < ROAD_WIDTH * 2
    /\ Abs(v.y - WINDOW_HEIGHT \div 2) < ROAD_WIDTH * 2

\* 4 * distance^2, for distance = (dx*dx + dy*dy) ** 0.5
Distance2x4(a, b) == 4 * ((a.x - b.x) * (a.x - b.x) + (a.y - b.y) * (a.y - b.y))

\* 2 * min_distance, for min_distance = MIN_VEHICLE_SPACING + (length + length) / 2
TwiceMinDistance(a, b) ==
    2 * MIN_VEHICLE_SPACING + Length(a.vehicle_type) + Length(b.vehicle_type)

\* distance < min_distance
TooClose(a, b) == Distance2x4(a, b) < TwiceMinDistance(a, b) * TwiceMinDistance(a, b)

\* The same-direction test of check_collision.  Its second alternative,
\* distance > -min_distance, compares a distance (>= 0) with a negative number.
SameDirectionConflict(v, o) ==
    \/ v.direction \in {"right", "down"} /\ TooClose(v, o)
    \/ v.direction \in {"left", "up"} /\ 0 - TwiceMinDistance(v, o) < 0

\* One other vehicle's contribution to Vehicle.check_collision.
Conflict(v, o) ==
    /\ TooClose(v, o)
    /\ IF v.direction = o.direction
       THEN SameDirectionConflict(v, o)
       ELSE is_at_intersection(v) /\ is_at_intersection(o)

\* Vehicle.check_collision; others is a sequence of vehicles
check_collision(v, others) ==
    \E i \in 1..Len(others) : others[i].id # v.id /\ Conflict(v, others[i])

\* Advance with the sign of 'up' reversed
Advance_UpAdds(v) ==
    CASE v.direction = "right" -> [v EXCEPT !.x = @ + Speed(v.vehicle_type)]
      [] v.direction = "left"  -> [v EXCEPT !.x = @ - Speed(v.vehicle_type)]
      [] v.direction = "up"    -> [v EXCEPT !.y = @ + Speed(v.vehicle_type)]
      [] v.direction = "down"  -> [v EXCEPT !.y = @ + Speed(v.vehicle_type)]

\* The position update of Vehicle.move
Advance(v) ==
    CASE v.direction = "right" -> [v EXCEPT !.x = @ + Speed(v.vehicle_type)]
      [] v.direction = "left"  -> [v EXCEPT !.x = @ - Speed(v.vehicle_type)]
      [] v.direction = "up"    -> [v EXCEPT !.y = @ - Speed(v.vehicle_type)]
      [] v.direction = "down"  -> [v EXCEPT !.y = @ + Speed(v.vehicle_type)]

\* move without the reset of stopped and waiting_time
move_NoReset(v, lights, others) ==
    IF should_stop(v, lights) \/ check_collision(v, others)
    THEN [v EXCEPT !.stopped = TRUE, !.waiting_time = @ + 1]
    ELSE Advance(v)

\* Vehicle.move: the vehicle after the call
move(v, lights, others) ==
    IF should_stop(v, lights) \/ check_collision(v, others)
    THEN [v EXCEPT !.stopped = TRUE, !.waiting_time = @ + 1]
    ELSE Advance([v EXCEPT !.stopped = FALSE, !.waiting_time = 0])

(***************************************************************************)
(* Simulation: spawning, lights, the loop                                  *)
(***************************************************************************)
\* spawn_x, spawn_y of spawn_vehicle
SpawnPoint(d) ==
    CASE d = "right" -> <<0 - SPAWN_OFFSET, WINDOW_HEIGHT \div 2 - ROAD_WIDTH \div 2>>
      [] d = "left"  -> <<WINDOW_WIDTH + SPAWN_OFFSET, WINDOW_HEIGHT \div 2 + ROAD_WIDTH \div 2>>
      [] d = "up"    -> <<WINDOW_WIDTH \div 2 + ROAD_WIDTH \div 2, WINDOW_HEIGHT + SPAWN_OFFSET>>
      [] d = "down"  -> <<WINDOW_WIDTH \div 2 - ROAD_WIDTH \div 2, 0 - SPAWN_OFFSET>>

\* (dx*dx + dy*dy) ** 0.5 < MIN_VEHICLE_SPACING, for one vehicle of the list
BlocksSpawn(v, p) ==
    (v.x - p[1]) * (v.x - p[1]) + (v.y - p[2]) * (v.y - p[2])
        < MIN_VEHICLE_SPACING * MIN_VEHICLE_SPACING

\* SpawnClear with the check of the spawn area left out
SpawnClear_Always(vs, d) == TRUE

\* The spawn area check of spawn_vehicle
SpawnClear(vs, d) == \A i \in 1..Len(vs) : ~BlocksSpawn(vs[i], SpawnPoint(d))

\* an id no vehicle of the list carries
FreshId(vs) == CHOOSE n \in 1..(Len(vs) + 1) : \A i \in 1..Len(vs) : vs[i].id # n

\* Simulation.spawn_vehicle once random.random() < 0.05 and the direction d
\* and the type t are drawn; id names the new object
spawn_vehicle(vs, id, d, t) ==
    IF SpawnClear(vs, d)
    THEN Append(vs, NewVehicle(id, SpawnPoint(d)[1], SpawnPoint(d)[2], d, t))
    ELSE vs

\* LightState without the red branch: every light that is not yellow is green
LightState_NoRed(light, switching, phase) ==
    IF switching THEN "yellow" ELSE "green"

\* LightState without the yellow branch
LightState_NoYellow(light, switching, phase) ==
    IF light.direction = phase /\ ~switching THEN "green" ELSE "red"

\* The state update_traffic_lights gives one light
LightState(light, switching, phase) ==
    IF switching THEN "yellow"
    ELSE IF light.direction = phase THEN "green" ELSE "red"

\* Simulation.update_traffic_lights
update_traffic_lights(lights, switching, phase) ==
    [i \in 1..Len(lights) |->
        [lights[i] EXCEPT !.state = LightState(lights[i], switching, phase)]]

\* OutOfWorld with the margin itself counted as outside (>= for >, <= for <)
OutOfWorld_Inclusive(v) ==
    \/ v.x <= 0 - EXIT_MARGIN \/ v.x >= WINDOW_WIDTH + EXIT_MARGIN
    \/ v.y <= 0 - EXIT_MARGIN \/ v.y >= WINDOW_HEIGHT + EXIT_MARGIN

\* The removal test of the loop of Simulation.run
OutOfWorld(v) ==
    \/ v.x < 0 - EXIT_MARGIN \/ v.x > WINDOW_WIDTH + EXIT_MARGIN
    \/ v.y < 0 - EXIT_MARGIN \/ v.y > WINDOW_HEIGHT + EXIT_MARGIN

\* index of the vehicle id in vs
IndexOf(vs, id) == CHOOSE i \in 1..Len(vs) : vs[i].id = id

RemoveAt(vs, i) == SubSeq(vs, 1, i - 1) \o SubSeq(vs, i + 1, Len(vs))

\* One iteration of "for vehicle in self.vehicles[:]": vehicle id moves, seeing
\* the others where they are now, and is removed once out of the world.
MoveOne(vs, lights, id) ==
    LET i == IndexOf(vs, id)
        moved == move(vs[i], lights, RemoveAt(vs, i))
    IN  IF OutOfWorld(moved) THEN RemoveAt(vs, i) ELSE [vs EXCEPT ![i] = moved]

\* The whole loop over the copy of the list: ids is the copy, k the next index
RECURSIVE MoveFrom(_, _, _, _)
MoveFrom(vs, lights, ids, k) ==
    IF k > Len(ids) THEN vs
    ELSE MoveFrom(MoveOne(vs, lights, ids[k]), lights, ids, k + 1)

MoveAll(vs, lights) == MoveFrom(vs, lights, [i \in 1..Len(vs) |-> vs[i].id], 1)

\* number of vehicles of type t on side s
SideOf(v) == IF v.x < WINDOW_WIDTH \div 2 THEN "left" ELSE "right"

\* Simulation.count_vehicles
count_vehicles(vs) ==
    [t \in VehicleTypes |-> [s \in {"left", "right"} |->
        Cardinality({i \in 1..Len(vs) : vs[i].vehicle_type = t /\ SideOf(vs[i]) = s})]]

\* The frame hand-off of Simulation.run: put only if the queue is empty
\* PutIfEmpty on a queue with no maxsize and no test of empty()
PutIfEmpty_Always(q, item) == Append(q, item)

PutIfEmpty(q, item) == IF q = << >> THEN <<item>> ELSE q

(***************************************************************************)
(* The signal controller                                                   *)
(***************************************************************************)
\* key of min() in handle_emergency_vehicle
CenterDistance(e) == Abs(e.x - WINDOW_WIDTH \div 2) + Abs(e.y - WINDOW_HEIGHT \div 2)

\* min(self.emergency_vehicles, key=...): the first vehicle of least key
Closest(ev) ==
    ev[CHOOSE i \in 1..Len(ev) :
          /\ \A j \in 1..Len(ev) : CenterDistance(ev[i]) <= CenterDistance(ev[j])
          /\ \A j \in 1..(i - 1) : CenterDistance(ev[j]) > CenterDistance(ev[i])]

\* Simulation.handle_emergency_vehicle, for a non-empty list
handle_emergency_vehicle(ev) ==
    IF Horizontal(Closest(ev).direction) THEN "horizontal" ELSE "vertical"

\* horizontal_vehicles + horizontal_waiting * 2, and the same for vertical
Score(vs, horizontal) ==
    Cardinality({i \in 1..Len(vs) : Horizontal(vs[i].direction) = horizontal})
    + 2 * Cardinality({i \in 1..Len(vs) : /\ Horizontal(vs[i].direction) = horizontal
                                          /\ vs[i].waiting_time > 0})

\* Exceeds120 with >= for >
Exceeds120_Inclusive(a, b) == 10 * a >= 12 * b

\* a > b * 1.2, on integers
Exceeds120(a, b) == 10 * a > 12 * b

\* should_switch without the minimum green time
should_switch_NoMinTime(vs, phase, phase_duration) ==
    IF phase_duration > SIGNAL_MAX_TIME THEN TRUE
    ELSE \/ phase = "horizontal" /\ Exceeds120(Score(vs, FALSE), Score(vs, TRUE))
         \/ phase = "vertical" /\ Exceeds120(Score(vs, TRUE), Score(vs, FALSE))

\* should_switch of calculate_signal_phase
should_switch(vs, phase, phase_duration) ==
    IF phase_duration > SIGNAL_MAX_TIME THEN TRUE
    ELSE IF phase_duration > SIGNAL_MIN_TIME
         THEN \/ phase = "horizontal" /\ Exceeds120(Score(vs, FALSE), Score(vs, TRUE))
              \/ phase = "vertical" /\ Exceeds120(Score(vs, TRUE), Score(vs, FALSE))
         ELSE FALSE

\* yellow is over: current_time - self.yellow_start_time >= YELLOW_TIME
YellowOver(t, ystart) == t - ystart >= YELLOW_TIME

\* CalculateSignalPhase with no return in the emergency branch: the scores and
\* the maximum green time are evaluated with an emergency vehicle present
CalculateSignalPhase_FallThrough ==
    /\ IF switching_phase
       THEN IF YellowOver(now, yellow_start_time)
            THEN /\ switching_phase' = FALSE
                 /\ phase_start_time' = now
                 /\ ret' = Opposite(current_phase)
                 /\ UNCHANGED yellow_start_time
            ELSE /\ ret' = current_phase
                 /\ UNCHANGED <<switching_phase, phase_start_time, yellow_start_time>>
       ELSE /\ IF \/ /\ emergency_vehicles # << >>
                     /\ handle_emergency_vehicle(emergency_vehicles) # current_phase
                  \/ should_switch(vehicles, current_phase, now - phase_start_time)
               THEN switching_phase' = TRUE /\ yellow_start_time' = now
               ELSE UNCHANGED <<switching_phase, yellow_start_time>>
            /\ ret' = current_phase
            /\ UNCHANGED phase_start_time
    /\ UNCHANGED <<current_phase, emergency_vehicles, now>>
    /\ UNCHANGED simVars
    /\ UNCHANGED aiVars
    /\ UNCHANGED analytics
    /\ UNCHANGED webVars

\* CalculateSignalPhase with the emergency test placed before the test of
\* switching_phase
CalculateSignalPhase_Restart ==
    /\ IF emergency_vehicles # << >>
          /\ handle_emergency_vehicle(emergency_vehicles) # current_phase
       THEN /\ switching_phase' = TRUE
            /\ yellow_start_time' = now
            /\ ret' = current_phase
            /\ UNCHANGED phase_start_time
       ELSE IF switching_phase
            THEN IF YellowOver(now, yellow_start_time)
                 THEN /\ switching_phase' = FALSE
                      /\ phase_start_time' = now
                      /\ ret' = Opposite(current_phase)
                      /\ UNCHANGED yellow_start_time
                 ELSE /\ ret' = current_phase
                      /\ UNCHANGED <<switching_phase, phase_start_time,
                                     yellow_start_time>>
            ELSE /\ IF should_switch(vehicles, current_phase, now - phase_start_time)
                    THEN switching_phase' = TRUE /\ yellow_start_time' = now
                    ELSE UNCHANGED <<switching_phase, yellow_start_time>>
                 /\ ret' = current_phase
                 /\ UNCHANGED phase_start_time
    /\ UNCHANGED <<current_phase, emergency_vehicles, now>>
    /\ UNCHANGED simVars
    /\ UNCHANGED aiVars
    /\ UNCHANGED analytics
    /\ UNCHANGED webVars

\* Simulation.calculate_signal_phase: no code of the repository calls it; it is
\* applied here as an operation of the Simulation object.  It never assigns
\* current_phase: the phase it computes is its return value.
CalculateSignalPhase ==
    /\ IF switching_phase
       THEN IF YellowOver(now, yellow_start_time)
            THEN /\ switching_phase' = FALSE
                 /\ phase_start_time' = now
                 /\ ret' = Opposite(current_phase)
                 /\ UNCHANGED yellow_start_time
            ELSE /\ ret' = current_phase
                 /\ UNCHANGED <<switching_phase, phase_start_time, yellow_start_time>>
       ELSE IF emergency_vehicles # << >>
            THEN /\ IF handle_emergency_vehicle(emergency_vehicles) # current_phase
                    THEN switching_phase' = TRUE /\ yellow_start_time' = now
                    ELSE UNCHANGED <<switching_phase, yellow_start_time>>
                 /\ ret' = current_phase
                 /\ UNCHANGED phase_start_time
            ELSE /\ IF should_switch(vehicles, current_phase, now - phase_start_time)
                    THEN switching_phase' = TRUE /\ yellow_start_time' = now
                    ELSE UNCHANGED <<switching_phase, yellow_start_time>>
                 /\ ret' = current_phase
                 /\ UNCHANGED phase_start_time
    /\ UNCHANGED <<current_phase, emergency_vehicles, now>>
    /\ UNCHANGED simVars
    /\ UNCHANGED aiVars
    /\ UNCHANGED analytics
    /\ UNCHANGED webVars

\* Simulation.update_traffic_lights, applied as an operation of the object
UpdateTrafficLights ==
    /\ traffic_lights' = update_traffic_lights(traffic_lights, switching_phase, current_phase)
    /\ UNCHANGED <<vehicles, vehicle_counts, frame_queue, now>>
    /\ UNCHANGED ctlVars
    /\ UNCHANGED aiVars
    /\ UNCHANGED analytics
    /\ UNCHANGED webVars

(***************************************************************************)
(* Simulation.run: one iteration of the loop                               *)
(***************************************************************************)
NoSpawn == <<"none", "none">>

\* what random.random(), random.choice and random.choices may yield
SpawnDraws == {NoSpawn} \cup (Directions \X VehicleTypes)

AfterSpawn(vs, draw) ==
    IF draw = NoSpawn THEN vs ELSE spawn_vehicle(vs, FreshId(vs), draw[1], draw[2])

\* what the drawing calls put on the screen, and get_frame copies
Render(vs, lights) ==
    [vehicles |-> [i \in 1..Len(vs) |-> <<vs[i].x, vs[i].y, vs[i].direction,
                                          vs[i].vehicle_type>>],
     lights |-> [i \in 1..Len(lights) |-> lights[i].state]]

\* distance a vehicle has covered since it was spawned
Travelled(v) ==
    Abs(v.x - SpawnPoint(v.direction)[1]) + Abs(v.y - SpawnPoint(v.direction)[2])

\* the part of the world that is explored: the loop is followed while every
\* vehicle has covered less than cap units and has waited less than MaxWait ticks
InRange(vs, cap) ==
    \A i \in 1..Len(vs) : Travelled(vs[i]) < cap /\ vs[i].waiting_time < MaxWait

\* Tick with the decision queue read: a value found there is taken and starts
\* the yellow transition
Tick_Obeying(cap) ==
    /\ InRange(vehicles, cap)
    /\ \E draw \in SpawnDraws :
          /\ draw # NoSpawn => Len(vehicles) < MaxVehicles
          /\ LET spawned == AfterSpawn(vehicles, draw)
                 lights == update_traffic_lights(traffic_lights, switching_phase,
                                                 current_phase)
                 moved == MoveAll(spawned, lights)
             IN  /\ traffic_lights' = lights
                 /\ vehicles' = moved
                 /\ vehicle_counts' = count_vehicles(moved)
                 /\ frame_queue' = PutIfEmpty(frame_queue, Render(moved, lights))
    /\ IF traffic_decision_queue # << >>
       THEN /\ traffic_decision_queue' = << >>
            /\ switching_phase' = TRUE
            /\ yellow_start_time' = now
       ELSE UNCHANGED <<traffic_decision_queue, switching_phase, yellow_start_time>>
    /\ UNCHANGED <<now, current_phase, phase_start_time, emergency_vehicles, ret>>
    /\ UNCHANGED <<traffic_stats, outputFrame>>
    /\ UNCHANGED analytics
    /\ UNCHANGED webVars

Tick(cap) ==
    /\ InRange(vehicles, cap)
    /\ \E draw \in SpawnDraws :
          /\ draw # NoSpawn => Len(vehicles) < MaxVehicles
          /\ LET spawned == AfterSpawn(vehicles, draw)
                 lights == update_traffic_lights(traffic_lights, switching_phase,
                                                 current_phase)
                 moved == MoveAll(spawned, lights)
             IN  /\ traffic_lights' = lights
                 /\ vehicles' = moved
                 /\ vehicle_counts' = count_vehicles(moved)
                 /\ frame_queue' = PutIfEmpty(frame_queue, Render(moved, lights))
    /\ UNCHANGED now
    /\ UNCHANGED ctlVars
    /\ UNCHANGED aiVars
    /\ UNCHANGED analytics
    /\ UNCHANGED webVars

\* the wall clock
AdvanceTime(cap) ==
    /\ now < cap
    /\ now' = now + 1
    /\ UNCHANGED simVars
    /\ UNCHANGED ctlVars
    /\ UNCHANGED aiVars
    /\ UNCHANGED analytics
    /\ UNCHANGED webVars

(***************************************************************************)
(* new.py: one iteration of the loop of video_processing                   *)
(***************************************************************************)
\* left_ratio > 1.5 for left_ratio = left_count / (right_count + 1)
RatioAbove(a, b) == 2 * a > 3 * (b + 1)

\* new_signal of video_processing
NewSignal(signal, left_count, right_count) ==
    IF RatioAbove(left_count, right_count) /\ signal = "RIGHT" THEN "LEFT"
    ELSE IF RatioAbove(right_count, left_count) /\ signal = "LEFT" THEN "RIGHT"
    ELSE signal

VideoProcessing ==
    /\ frame_queue # << >>
    /\ frame_queue' = << >>
    /\ outputFrame' = << Head(frame_queue) >>
    /\ \E left_count \in 0..MaxCount, right_count \in 0..MaxCount :
          LET new_signal == NewSignal(traffic_stats.signal, left_count, right_count)
          IN  IF now - traffic_stats.last_switch_time >= MIN_SIGNAL_DURATION
                 /\ new_signal # traffic_stats.signal
              THEN /\ traffic_stats' = [signal |-> new_signal, last_switch_time |-> now]
                   /\ traffic_decision_queue' = PutIfEmpty(traffic_decision_queue, new_signal)
              ELSE UNCHANGED <<traffic_stats, traffic_decision_queue>>
    /\ UNCHANGED <<vehicles, traffic_lights, vehicle_counts, now>>
    /\ UNCHANGED ctlVars
    /\ UNCHANGED webVars
    /\ UNCHANGED analytics

(***************************************************************************)
(* The threads of new.py, statement by statement: the body of the loop of  *)
(* Simulation.run runs on the simulation thread with no lock held, so the  *)
(* perception thread and the Flask threads run between any two statements  *)
(***************************************************************************)
\* self.spawn_vehicle()
StepSpawn(cap) ==
    /\ pc = "spawn"
    /\ InRange(vehicles, cap)
    /\ \E draw \in SpawnDraws :
          /\ draw # NoSpawn => Len(vehicles) < MaxVehicles
          /\ vehicles' = AfterSpawn(vehicles, draw)
    /\ pc' = "lights"
    /\ UNCHANGED <<traffic_lights, vehicle_counts, frame_queue, now, reply>>
    /\ UNCHANGED ctlVars
    /\ UNCHANGED aiVars
    /\ UNCHANGED analytics

\* self.update_traffic_lights()
StepLights ==
    /\ pc = "lights"
    /\ traffic_lights' = update_traffic_lights(traffic_lights, switching_phase,
                                               current_phase)
    /\ pc' = "move"
    /\ UNCHANGED <<vehicles, vehicle_counts, frame_queue, now, reply>>
    /\ UNCHANGED ctlVars
    /\ UNCHANGED aiVars
    /\ UNCHANGED analytics

\* for vehicle in self.vehicles[:]: vehicle.move(...), and the removals
StepMove ==
    /\ pc = "move"
    /\ vehicles' = MoveAll(vehicles, traffic_lights)
    /\ pc' = "reset"
    /\ UNCHANGED <<traffic_lights, vehicle_counts, frame_queue, now, reply>>
    /\ UNCHANGED ctlVars
    /\ UNCHANGED aiVars
    /\ UNCHANGED analytics

\* count_vehicles: the loop that resets the counts
StepReset ==
    /\ pc = "reset"
    /\ vehicle_counts' = ZeroCounts
    /\ pc' = "count"
    /\ UNCHANGED <<vehicles, traffic_lights, frame_queue, now, reply>>
    /\ UNCHANGED ctlVars
    /\ UNCHANGED aiVars
    /\ UNCHANGED analytics

\* count_vehicles: the loop that counts the vehicles
StepCount ==
    /\ pc = "count"
    /\ vehicle_counts' = count_vehicles(vehicles)
    /\ pc' = "frame"
    /\ UNCHANGED <<vehicles, traffic_lights, frame_queue, now, reply>>
    /\ UNCHANGED ctlVars
    /\ UNCHANGED aiVars
    /\ UNCHANGED analytics

\* the drawing calls, get_frame and the put on the frame queue
StepFrame ==
    /\ pc = "frame"
    /\ frame_queue' = PutIfEmpty(frame_queue, Render(vehicles, traffic_lights))
    /\ pc' = "spawn"
    /\ UNCHANGED <<vehicles, traffic_lights, vehicle_counts, now, reply>>
    /\ UNCHANGED ctlVars
    /\ UNCHANGED aiVars
    /\ UNCHANGED analytics

\* the statement of the simulation thread that comes next
SimStep(cap) ==
    \/ StepSpawn(cap)
    \/ StepLights
    \/ StepMove
    \/ StepReset
    \/ StepCount
    \/ StepFrame

\* number of vehicles with waiting_time > 0
Waiting(vs) == Cardinality({i \in 1..Len(vs) : vs[i].waiting_time > 0})

\* Simulation.get_analytics_data: the fields that depend on the world
get_analytics_data(vs, counts, phase, lights) ==
    [traffic_stats |-> counts,
     current_signal_phase |-> phase,
     total |-> Len(vs),
     waiting |-> Waiting(vs),
     traffic_lights |-> [i \in 1..Len(lights) |-> lights[i].state]]

\* Query with the counts computed again before they are reported
Query_Recounting ==
    /\ vehicle_counts' = count_vehicles(vehicles)
    /\ reply' = << get_analytics_data(vehicles, vehicle_counts', current_phase,
                                      traffic_lights) >>
    /\ UNCHANGED <<vehicles, traffic_lights, frame_queue, now, pc>>
    /\ UNCHANGED ctlVars
    /\ UNCHANGED aiVars
    /\ UNCHANGED analytics

\* new.py traffic_data: a Flask thread serves /api/v1/traffic-data
Query ==
    /\ reply' = << get_analytics_data(vehicles, vehicle_counts, current_phase,
                                      traffic_lights) >>
    /\ UNCHANGED <<simVars, now, pc>>
    /\ UNCHANGED ctlVars
    /\ UNCHANGED aiVars
    /\ UNCHANGED analytics

\* the wall clock, seen at the instants MIN_SIGNAL_DURATION apart at which the
\* perception thread may send a decision
AdvanceTimeBy(step, cap) ==
    /\ now + step <= cap
    /\ now' = now + step
    /\ UNCHANGED simVars
    /\ UNCHANGED ctlVars
    /\ UNCHANGED aiVars
    /\ UNCHANGED analytics
    /\ UNCHANGED webVars

(***************************************************************************)
(* Specifications                                                          *)
(***************************************************************************)
\* new.py: the simulation thread, the perception thread and the clock
Next ==
    \/ Tick(MaxTravel)
    \/ VideoProcessing
    \/ AdvanceTime(MaxTime)

Spec == Init /\ [][Next]_vars

\* the same threads, scheduled fairly: the loop of run has no exit but QUIT and
\* is paced by clock.tick(60), and the wall clock advances
SpecLive ==
    /\ Init
    /\ [][Next]_vars
    /\ WF_vars(Tick(MaxTravel))
    /\ WF_vars(AdvanceTime(MaxTime))

\* traffic_simulation.py run on its own: the loop alone
NextTraffic == Tick(MaxTrafficTravel)

SpecTraffic == Init /\ [][NextTraffic]_vars

\* new.py with the threads interleaved statement by statement
NextThreads ==
    \/ SimStep(MaxTravel)
    \/ VideoProcessing
    \/ Query
    \/ AdvanceTimeBy(MIN_SIGNAL_DURATION, MaxThreadTime)

SpecThreads == Init /\ [][NextThreads]_vars

(***************************************************************************)
(* The controller as an object: calculate_signal_phase and                 *)
(* update_traffic_lights applied in any order, on the traffic and the      *)
(* emergency list they may find.                                           *)
(***************************************************************************)
\* a car that was spawned in the last iteration of the loop
FreshCar(id, d) ==
    move(NewVehicle(id, SpawnPoint(d)[1], SpawnPoint(d)[2], d, "car"),
         update_traffic_lights(InitialLights, FALSE, "horizontal"), << >>)

\* a car going down that has reached the red light and has waited one iteration
WaitingCar(id) ==
    [NewVehicle(id, SpawnPoint("down")[1], 202, "down", "car")
        EXCEPT !.stopped = TRUE, !.waiting_time = 1]

ApiTraffic ==
    { << >>,
      << FreshCar(1, "right") >>,
      << FreshCar(1, "down") >>,
      << FreshCar(1, "right"), FreshCar(2, "down") >>,
      << WaitingCar(1), FreshCar(2, "right") >> }

\* what handle_emergency_vehicle reads of an emergency vehicle
Emergency(x, y, d) == [x |-> x, y |-> y, direction |-> d]

EmergencyInputs ==
    { << >>,
      << Emergency(SpawnPoint("right")[1], SpawnPoint("right")[2], "right") >>,
      << Emergency(SpawnPoint("down")[1], SpawnPoint("down")[2] + SPAWN_OFFSET, "down") >>,
      << Emergency(SpawnPoint("right")[1], SpawnPoint("right")[2], "right"),
         Emergency(SpawnPoint("down")[1], SpawnPoint("down")[2] + SPAWN_OFFSET, "down") >> }

InitApi ==
    /\ vehicles \in ApiTraffic
    /\ emergency_vehicles \in EmergencyInputs
    /\ traffic_lights = InitialLights
    /\ current_phase = "horizontal"
    /\ switching_phase = FALSE
    /\ phase_start_time = 0
    /\ yellow_start_time = 0
    /\ vehicle_counts = count_vehicles(vehicles)
    /\ frame_queue = << >>
    /\ traffic_decision_queue = << >>
    /\ traffic_stats = InitialStats
    /\ outputFrame = << >>
    /\ now = 0
    /\ ret = "none"
    /\ pc = "spawn"
    /\ reply = << >>
    /\ analytics = InitialAnalytics

NextApi ==
    \/ CalculateSignalPhase
    \/ UpdateTrafficLights
    \/ AdvanceTime(MaxApiTime)

SpecApi == InitApi /\ [][NextApi]_vars

(***************************************************************************)
(* Vehicle.move as a function of the vehicle, the lights and the others:   *)
(* one vehicle placed around the stop zones of the lights, moved under     *)
(* every state the lights can be given.                                    *)
(***************************************************************************)
\* the coordinate of a light on the axis a direction travels along
LightMark(light, d) == IF Horizontal(d) THEN light.position[1] ELSE light.position[2]

Orientation(d) == IF Horizontal(d) THEN "horizontal" ELSE "vertical"

\* where a stop zone begins and ends, on the axis of direction d
ZoneMarks(d) ==
    UNION { { LightMark(InitialLights[i], d),
              IF d \in {"right", "down"}
              THEN LightMark(InitialLights[i], d) - LOOK_AHEAD
              ELSE LightMark(InitialLights[i], d) + LOOK_AHEAD }
            : i \in {j \in 1..Len(InitialLights) :
                        InitialLights[j].direction = Orientation(d)} }

AxisInputs(d) == { m + k : m \in ZoneMarks(d), k \in (0 - NearRange)..NearRange }

\* the coordinate of a vehicle on the axis it travels along
AxisOf(v) == IF Horizontal(v.direction) THEN v.x ELSE v.y

PlacedVehicle(d, t, a) ==
    IF Horizontal(d) THEN NewVehicle(1, a, SpawnPoint(d)[2], d, t)
                     ELSE NewVehicle(1, SpawnPoint(d)[1], a, d, t)

VehicleInputs ==
    { PlacedVehicle(d, t, a) : d \in Directions, t \in VehicleTypes,
                               a \in UNION { AxisInputs(e) : e \in Directions } }

PhaseInputs == {"horizontal", "vertical"}

InitVehicle ==
    /\ \E v \in VehicleInputs :
          /\ AxisOf(v) \in AxisInputs(v.direction)
          /\ vehicles = << v >>
    /\ emergency_vehicles = << >>
    /\ current_phase \in PhaseInputs
    /\ switching_phase \in BOOLEAN
    /\ traffic_lights = update_traffic_lights(InitialLights, switching_phase, current_phase)
    /\ phase_start_time = 0
    /\ yellow_start_time = 0
    /\ vehicle_counts = count_vehicles(vehicles)
    /\ frame_queue = << >>
    /\ traffic_decision_queue = << >>
    /\ traffic_stats = InitialStats
    /\ outputFrame = << >>
    /\ now = 0
    /\ ret = "none"
    /\ pc = "spawn"
    /\ reply = << >>
    /\ analytics = InitialAnalytics

\* vehicle.move(self.traffic_lights, [v for v in self.vehicles if v != vehicle])
VehicleMove ==
    /\ \E i \in 1..Len(vehicles) :
          /\ AxisOf(vehicles[i]) \in AxisInputs(vehicles[i].direction)
          /\ vehicles[i].waiting_time < MaxWait
          /\ vehicles' = [vehicles EXCEPT
                            ![i] = move(vehicles[i], traffic_lights, RemoveAt(vehicles, i))]
    /\ UNCHANGED <<traffic_lights, vehicle_counts, frame_queue, now>>
    /\ UNCHANGED ctlVars
    /\ UNCHANGED aiVars
    /\ UNCHANGED analytics
    /\ UNCHANGED webVars

\* the lights are given another of the states update_traffic_lights produces
LightsInput ==
    /\ \E sw \in BOOLEAN, ph \in PhaseInputs :
          /\ switching_phase' = sw
          /\ current_phase' = ph
          /\ traffic_lights' = update_traffic_lights(traffic_lights, sw, ph)
    /\ UNCHANGED <<vehicles, vehicle_counts, frame_queue, now>>
    /\ UNCHANGED <<phase_start_time, yellow_start_time, emergency_vehicles, ret>>
    /\ UNCHANGED aiVars
    /\ UNCHANGED analytics
    /\ UNCHANGED webVars

NextVehicle ==
    \/ VehicleMove
    \/ LightsInput

SpecVehicle == InitVehicle /\ [][NextVehicle]_vars

(***************************************************************************)
(* Vehicle.move with another vehicle on the same lane: the vehicle of      *)
(* VehicleInputs, and a second one ahead of it or behind it, at the        *)
(* distances around min_distance                                           *)
(***************************************************************************)
\* the distances within PairRange of min_distance (rounded down)
GapInputs(t1, t2) ==
    { (2 * MIN_VEHICLE_SPACING + Length(t1) + Length(t2)) \div 2 + k :
          k \in (0 - PairRange)..PairRange }

\* vehicle v displaced by g along its axis, as a vehicle of type t
Companion(v, t, g) ==
    IF Horizontal(v.direction)
    THEN NewVehicle(2, v.x + g, v.y, v.direction, t)
    ELSE NewVehicle(2, v.x, v.y + g, v.direction, t)

InitPair ==
    /\ \E v \in VehicleInputs, t \in VehicleTypes, side \in {0 - 1, 1} :
          /\ AxisOf(v) \in AxisInputs(v.direction)
          /\ \E g \in GapInputs(v.vehicle_type, t) :
                vehicles = << v, Companion(v, t, side * g) >>
    /\ emergency_vehicles = << >>
    /\ current_phase \in PhaseInputs
    /\ switching_phase \in BOOLEAN
    /\ traffic_lights = update_traffic_lights(InitialLights, switching_phase, current_phase)
    /\ phase_start_time = 0
    /\ yellow_start_time = 0
    /\ vehicle_counts = count_vehicles(vehicles)
    /\ frame_queue = << >>
    /\ traffic_decision_queue = << >>
    /\ traffic_stats = InitialStats
    /\ outputFrame = << >>
    /\ now = 0
    /\ ret = "none"
    /\ pc = "spawn"
    /\ reply = << >>
    /\ analytics = InitialAnalytics

NextPair == VehicleMove

SpecPair == InitPair /\ [][NextPair]_vars

(***************************************************************************)
(* spawn_vehicle as a function of the vehicle list: one vehicle that has   *)
(* travelled about MIN_VEHICLE_SPACING from its spawn point, or none       *)
(***************************************************************************)
\* a vehicle of direction d and type t after g units of travel; g is a
\* multiple of its speed
Travelling(d, t, g) ==
    CASE d = "right" -> NewVehicle(1, SpawnPoint(d)[1] + g, SpawnPoint(d)[2], d, t)
      [] d = "left"  -> NewVehicle(1, SpawnPoint(d)[1] - g, SpawnPoint(d)[2], d, t)
      [] d = "up"    -> NewVehicle(1, SpawnPoint(d)[1], SpawnPoint(d)[2] - g, d, t)
      [] d = "down"  -> NewVehicle(1, SpawnPoint(d)[1], SpawnPoint(d)[2] + g, d, t)

\* the distances within SpawnRange of MIN_VEHICLE_SPACING a vehicle of type t
\* can have covered
TravelInputs(t) ==
    { n \in (MIN_VEHICLE_SPACING - SpawnRange)..(MIN_VEHICLE_SPACING + SpawnRange) :
         n % Speed(t) = 0 }

SpawnTraffic ==
    { << >> } \cup
    UNION { { << Travelling(d, t, g) >> : g \in TravelInputs(t) } :
               d \in Directions, t \in VehicleTypes }

InitSpawn ==
    /\ vehicles \in SpawnTraffic
    /\ emergency_vehicles = << >>
    /\ current_phase = "horizontal"
    /\ switching_phase = FALSE
    /\ traffic_lights = update_traffic_lights(InitialLights, switching_phase, current_phase)
    /\ phase_start_time = 0
    /\ yellow_start_time = 0
    /\ vehicle_counts = count_vehicles(vehicles)
    /\ frame_queue = << >>
    /\ traffic_decision_queue = << >>
    /\ traffic_stats = InitialStats
    /\ outputFrame = << >>
    /\ now = 0
    /\ ret = "none"
    /\ pc = "spawn"
    /\ reply = << >>
    /\ analytics = InitialAnalytics

NextSpawn == StepSpawn(MaxTrafficTravel)

SpecSpawn == InitSpawn /\ [][NextSpawn]_vars

(***************************************************************************)
(* The move loop of run at the end of a vehicle's way: one vehicle, or two *)
(* of different directions, within ExitRange of the margin they leave by   *)
(***************************************************************************)
\* distance from the spawn point of direction d to the margin at its far end
WayLength(d) ==
    (IF Horizontal(d) THEN WINDOW_WIDTH ELSE WINDOW_HEIGHT) + SPAWN_OFFSET + EXIT_MARGIN

\* the vehicles of id n that have at most ExitRange units left to the margin
Leaving(n) ==
    UNION { { [Travelling(d, t, g) EXCEPT !.id = n] :
                 g \in { m \in (WayLength(d) - ExitRange)..WayLength(d) :
                            m % Speed(t) = 0 } } :
               d \in Directions, t \in VehicleTypes }

ExitTraffic ==
    { << v >> : v \in Leaving(1) } \cup
    { p \in Leaving(1) \X Leaving(2) : p[1].direction # p[2].direction }

\* the simulation thread is about to run the move loop of an iteration
InitExit ==
    /\ vehicles \in ExitTraffic
    /\ emergency_vehicles = << >>
    /\ current_phase = "horizontal"
    /\ switching_phase = FALSE
    /\ traffic_lights = update_traffic_lights(InitialLights, switching_phase, current_phase)
    /\ phase_start_time = 0
    /\ yellow_start_time = 0
    /\ vehicle_counts = count_vehicles(vehicles)
    /\ frame_queue = << >>
    /\ traffic_decision_queue = << >>
    /\ traffic_stats = InitialStats
    /\ outputFrame = << >>
    /\ now = 0
    /\ ret = "none"
    /\ pc = "move"
    /\ reply = << >>
    /\ analytics = InitialAnalytics

NextExit ==
    \/ StepMove
    \/ StepReset
    \/ StepCount
    \/ StepFrame

SpecExit == InitExit /\ [][NextExit]_vars

(***************************************************************************)
(* Vehicle.move with a vehicle of another direction nearby: two vehicles   *)
(* of VehicleInputs with different directions, closer than min_distance    *)
(***************************************************************************)
InitCross ==
    /\ \E v \in VehicleInputs, o \in VehicleInputs :
          /\ AxisOf(v) \in AxisInputs(v.direction)
          /\ AxisOf(o) \in AxisInputs(o.direction)
          /\ o.direction # v.direction
          /\ Horizontal(v.direction) \/ ~Horizontal(o.direction)
          /\ TooClose(v, o)
          /\ vehicles = << v, [o EXCEPT !.id = 2] >>
    /\ emergency_vehicles = << >>
    /\ current_phase \in PhaseInputs
    /\ switching_phase \in BOOLEAN
    /\ traffic_lights = update_traffic_lights(InitialLights, switching_phase, current_phase)
    /\ phase_start_time = 0
    /\ yellow_start_time = 0
    /\ vehicle_counts = count_vehicles(vehicles)
    /\ frame_queue = << >>
    /\ traffic_decision_queue = << >>
    /\ traffic_stats = InitialStats
    /\ outputFrame = << >>
    /\ now = 0
    /\ ret = "none"
    /\ pc = "spawn"
    /\ reply = << >>
    /\ analytics = InitialAnalytics

NextCross == VehicleMove

SpecCross == InitCross /\ [][NextCross]_vars

(***************************************************************************)
(* calculate_signal_phase as a function of the traffic, the emergency list,*)
(* the phase and the time elapsed since phase_start_time: the controller   *)
(* is applied at the instants around SIGNAL_MIN_TIME and SIGNAL_MAX_TIME   *)
(***************************************************************************)
\* a vehicle that has waited at place (x, y)
Held(id, x, y, d) ==
    [NewVehicle(id, x, y, d, "car") EXCEPT !.stopped = TRUE, !.waiting_time = 1]

\* five vehicles on the horizontal road and two that wait on the vertical one:
\* scores 5 and 6, and 6 = 5 * 1.2
EvenTraffic ==
    << Held(1, SpawnPoint("down")[1], 202, "down"),
       Held(2, SpawnPoint("up")[1], WINDOW_HEIGHT - 202, "up"),
       NewVehicle(3, 100, SpawnPoint("right")[2], "right", "car"),
       NewVehicle(4, 250, SpawnPoint("right")[2], "right", "bus"),
       NewVehicle(5, 700, SpawnPoint("left")[2], "left", "car"),
       NewVehicle(6, 550, SpawnPoint("left")[2], "left", "truck"),
       FreshCar(7, "right") >>

EvalTraffic == ApiTraffic \cup {EvenTraffic}

\* the instants within EvalRange seconds of the two thresholds
EvalTimes ==
    { t + k : t \in {SIGNAL_MIN_TIME, SIGNAL_MAX_TIME}, k \in (0 - EvalRange)..EvalRange }

InitEval ==
    /\ vehicles \in EvalTraffic
    /\ emergency_vehicles \in EmergencyInputs
    /\ current_phase \in PhaseInputs
    /\ now \in EvalTimes
    /\ traffic_lights = InitialLights
    /\ switching_phase = FALSE
    /\ phase_start_time = 0
    /\ yellow_start_time = 0
    /\ vehicle_counts = count_vehicles(vehicles)
    /\ frame_queue = << >>
    /\ traffic_decision_queue = << >>
    /\ traffic_stats = InitialStats
    /\ outputFrame = << >>
    /\ ret = "none"
    /\ pc = "spawn"
    /\ reply = << >>
    /\ analytics = InitialAnalytics

NextEval ==
    \/ CalculateSignalPhase
    \/ UpdateTrafficLights

SpecEval == InitEval /\ [][NextEval]_vars

(***************************************************************************)
(* The loop with the controller called: a vertical vehicle arrives at its   *)
(* red light while a horizontal vehicle approaches the intersection, and    *)
(* calculate_signal_phase is called between the iterations of the loop.     *)
(***************************************************************************)
\* the lights as every iteration of the running loop leaves them
RunningLights == update_traffic_lights(InitialLights, FALSE, "horizontal")

\* the distances from its spawn point at which a vehicle meets a red light
StopTravels(d, t) ==
    { g \in 0..WayLength(d) : /\ g % Speed(t) = 0
                              /\ should_stop(Travelling(d, t, g), RunningLights) }

\* the distance at which a vehicle coming from its spawn point first stops
StopTravel(d, t) ==
    CHOOSE g \in StopTravels(d, t) : \A h \in StopTravels(d, t) : g <= h

\* a vertical vehicle where the red light stops it
Arriving ==
    { Travelling(d, t, StopTravel(d, t)) : d \in {"up", "down"}, t \in VehicleTypes }

\* a horizontal vehicle that has come about as far from its spawn point
Approaching ==
    UNION { { [Travelling(d, t, g) EXCEPT !.id = 2] :
                 g \in { n \in (StopTravel("down", t) - CrossRange)
                                ..(StopTravel("down", t) + CrossRange) : n % Speed(t) = 0 } } :
               d \in {"left", "right"}, t \in VehicleTypes }

InitYellow ==
    /\ vehicles \in { << v, o >> : v \in Arriving, o \in Approaching }
    /\ traffic_lights = RunningLights
    /\ current_phase = "horizontal"
    /\ switching_phase = FALSE
    /\ phase_start_time = 0
    /\ yellow_start_time = 0
    /\ emergency_vehicles = << >>
    /\ vehicle_counts = count_vehicles(vehicles)
    /\ frame_queue = << >>
    /\ traffic_decision_queue = << >>
    /\ traffic_stats = InitialStats
    /\ outputFrame = << >>
    /\ now = SIGNAL_MIN_TIME + 1
    /\ ret = "none"
    /\ pc = "spawn"
    /\ reply = << >>
    /\ analytics = InitialAnalytics

NextYellow ==
    \/ Tick(MaxCrossTravel)
    \/ CalculateSignalPhase
    \/ AdvanceTime(MaxApiTime)

SpecYellow == InitYellow /\ [][NextYellow]_vars

(***************************************************************************)
(* update_traffic_lights with an exception: the body is one try block, the  *)
(* loop assigns the lights in place one after the other, and the handler    *)
(* only prints.  An exception raised when k lights have been assigned       *)
(* leaves those k lights assigned and the others as they were: k = 0 is an  *)
(* exception raised while the time to change is computed.                   *)
(***************************************************************************)
update_traffic_lights_raising(lights, switching, phase, k) ==
    [i \in 1..Len(lights) |->
        IF i <= k
        THEN [lights[i] EXCEPT !.state = LightState(lights[i], switching, phase)]
        ELSE lights[i]]

\* self.update_traffic_lights() in the loop of run, when its try block raises
StepLightsRaise ==
    /\ pc = "lights"
    /\ \E k \in 0..(Len(traffic_lights) - 1) :
          traffic_lights' = update_traffic_lights_raising(traffic_lights, switching_phase,
                                                          current_phase, k)
    /\ pc' = "move"
    /\ UNCHANGED <<vehicles, vehicle_counts, frame_queue, now, reply>>
    /\ UNCHANGED ctlVars
    /\ UNCHANGED aiVars
    /\ UNCHANGED analytics

NextFault ==
    \/ StepSpawn(MaxTravel)
    \/ StepLights
    \/ StepLightsRaise
    \/ StepMove
    \/ StepReset
    \/ StepCount
    \/ StepFrame

SpecFault == Init /\ [][NextFault]_vars

(***************************************************************************)
(* Properties                                                              *)
(***************************************************************************)
StatesAre(lights, h, v) ==
    \A i \in 1..Len(lights) :
        lights[i].state = IF lights[i].direction = "horizontal" THEN h ELSE v

HorizontalGreen(lights) == StatesAre(lights, "green", "red")
VerticalGreen(lights) == StatesAre(lights, "red", "green")
AllYellow(lights) == StatesAre(lights, "yellow", "yellow")

ThreeConfigurations ==
    \/ HorizontalGreen(traffic_lights)
    \/ VerticalGreen(traffic_lights)
    \/ AllYellow(traffic_lights)

\* C1: after every iteration of the simulation loop the four lights are in one
\* of three configurations: horizontal green and vertical red, vertical green
\* and horizontal red, or all yellow.
C1_LightConfigurations == [][Tick(MaxTravel) => ThreeConfigurations']_vars

\* an iteration has run with a vehicle on the road and the lights are set
C1_Witness ==
    /\ Len(vehicles) > 0
    /\ frame_queue # << >>
    /\ HorizontalGreen(traffic_lights)

\* C2 (as claimed): a call of the controller during the yellow transition flips
\* current_phase to the opposite orientation, resets phase_start_time to now and
\* clears switching_phase once YELLOW_TIME has elapsed since yellow_start_time,
\* and leaves the phase and the flag alone before that.
C2_YellowCompletion ==
    [][(CalculateSignalPhase /\ switching_phase) =>
          IF now - yellow_start_time >= YELLOW_TIME
          THEN /\ current_phase' = Opposite(current_phase)
               /\ phase_start_time' = now
               /\ ~switching_phase'
          ELSE /\ current_phase' = current_phase
               /\ switching_phase']_vars

\* C3 (as claimed): an iteration of the running loop that finds more than
\* SIGNAL_MAX_TIME elapsed since phase_start_time and no transition in flight
\* starts the yellow transition.
C3_ForcedSwitch ==
    [][(Tick(MaxTravel) /\ now - phase_start_time > SIGNAL_MAX_TIME
                        /\ ~switching_phase)
          => switching_phase']_vars

\* C4: while the emergency list is empty, no step taken at most SIGNAL_MIN_TIME
\* after phase_start_time starts a yellow transition or changes the phase, and
\* the controller returns the current phase there.
C4_MinimumGreen ==
    [][(/\ emergency_vehicles = << >>
        /\ now - phase_start_time <= SIGNAL_MIN_TIME)
          => /\ ~switching_phase'
             /\ current_phase' = current_phase
             /\ ret' \in {ret, current_phase}]_vars

\* the controller has been applied within the minimum green time to traffic
\* whose scores ask for a switch, and has stayed in the phase
C4_Witness ==
    /\ emergency_vehicles = << >>
    /\ ret = current_phase
    /\ ~switching_phase
    /\ now > 0
    /\ now - phase_start_time <= SIGNAL_MIN_TIME
    /\ Exceeds120(Score(vehicles, FALSE), Score(vehicles, TRUE))

\* C5 (as claimed): with an emergency list whose closest member travels
\* vertically and the phase horizontal, a call of the controller starts the
\* yellow transition if none is in flight, and the call that finds YELLOW_TIME
\* elapsed makes the phase vertical.
C5_EmergencyPreemption ==
    [][(/\ CalculateSignalPhase
        /\ emergency_vehicles # << >>
        /\ handle_emergency_vehicle(emergency_vehicles) = "vertical"
        /\ current_phase = "horizontal")
          => IF switching_phase
             THEN now - yellow_start_time >= YELLOW_TIME => current_phase' = "vertical"
             ELSE switching_phase' /\ yellow_start_time' = now]_vars

\* C6 (as claimed): an iteration of the loop that finds a recommendation on the
\* decision queue, different from the current phase, with no transition in
\* flight, takes it off the queue and starts the yellow transition.
C6_DecisionIn ==
    [][(/\ Tick(MaxTravel)
        /\ traffic_decision_queue # << >>
        /\ Head(traffic_decision_queue) # current_phase
        /\ ~switching_phase)
          => switching_phase' /\ traffic_decision_queue' = << >>]_vars

\* C7 (as claimed): what the consumer takes from the frame queue is the frame
\* the loop rendered last, also when the loop rendered two frames since the
\* consumer last drained the queue.
C7_FrameFreshness ==
    [][VideoProcessing => outputFrame' = << Render(vehicles, traffic_lights) >>]_vars

\* C8 (as claimed): after every iteration two vehicles of the same direction are
\* at least MIN_VEHICLE_SPACING + (sum of half-lengths) apart, unless one of
\* them is stopped.
C8_SameDirectionSpacing ==
    \A i \in 1..Len(vehicles), j \in 1..Len(vehicles) :
        (/\ i # j
         /\ vehicles[i].direction = vehicles[j].direction
         /\ TooClose(vehicles[i], vehicles[j]))
            => vehicles[i].stopped \/ vehicles[j].stopped

\* the vehicle of the next state that carries the id of vehicle i of this state
Moved(i) ==
    \E j \in 1..Len(vehicles') :
        /\ vehicles'[j].id = vehicles[i].id
        /\ <<vehicles'[j].x, vehicles'[j].y>> # <<vehicles[i].x, vehicles[i].y>>

AtRest(id, vs) ==
    \A j \in 1..Len(vs) : vs[j].id = id => vs[j].waiting_time = 0 /\ ~vs[j].stopped

\* C9: a vehicle whose position changed in a step has waiting time 0 and is not
\* stopped after it.
C9_MovedNotWaiting ==
    [][\A i \in 1..Len(vehicles) : Moved(i) => AtRest(vehicles[i].id, vehicles')]_vars

\* a vehicle has moved out of the places the vehicles are put at, and is at rest
C9_Witness ==
    \E i \in 1..Len(vehicles) :
        /\ AxisOf(vehicles[i]) \notin AxisInputs(vehicles[i].direction)
        /\ vehicles[i].waiting_time = 0
        /\ ~vehicles[i].stopped

\* distance still to cover to reach the light, along the travel axis
Gap(v, light) ==
    IF v.direction \in {"right", "down"}
    THEN LightMark(light, v.direction) - AxisOf(v)
    ELSE AxisOf(v) - LightMark(light, v.direction)

\* a red light of the vehicle's orientation is ahead, less than 100 units away
InStopZone(v, lights) ==
    \E k \in 1..Len(lights) :
        /\ lights[k].direction = Orientation(v.direction)
        /\ lights[k].state = "red"
        /\ Gap(v, lights[k]) > 0
        /\ Gap(v, lights[k]) < LOOK_AHEAD

\* C10: a vehicle with no other vehicle around stays where it is in a move if
\* and only if a red light of its orientation is ahead of it, less than 100
\* units away; a yellow or a green light never stops it.
C10_RedLightStop ==
    [][(VehicleMove /\ Len(vehicles) = 1) =>
          /\ (<<vehicles'[1].x, vehicles'[1].y>> = <<vehicles[1].x, vehicles[1].y>>)
                <=> InStopZone(vehicles[1], traffic_lights)
          /\ vehicles'[1].stopped <=> InStopZone(vehicles[1], traffic_lights)]_vars

\* a vehicle 99 units before a red light of its orientation has been held
C10_Witness ==
    /\ Len(vehicles) = 1
    /\ vehicles[1].stopped
    /\ vehicles[1].waiting_time > 0
    /\ \E k \in 1..Len(traffic_lights) :
          /\ traffic_lights[k].direction = Orientation(vehicles[1].direction)
          /\ traffic_lights[k].state = "red"
          /\ Gap(vehicles[1], traffic_lights[k]) = LOOK_AHEAD - 1

\* C11: under every interleaving of the statements of the simulation thread
\* with the perception thread, the Flask threads and the clock, the frame
\* queue and the decision queue hold at most one item each, and the hand-off
\* that ends an iteration of the loop can always be taken: it waits neither
\* for the frame queue to be drained nor for a decision to arrive.
C11_QueuesNeverBlock ==
    /\ Len(frame_queue) <= QUEUE_MAXSIZE
    /\ Len(traffic_decision_queue) <= QUEUE_MAXSIZE
    /\ pc = "frame" => ENABLED StepFrame

\* the loop has ended an iteration on a frame queue still holding an older
\* frame, and the second decision of the perception thread found the first one
\* still on the decision queue
C11_Witness ==
    /\ pc = "spawn"
    /\ frame_queue # << >>
    /\ Head(frame_queue) # Render(vehicles, traffic_lights)
    /\ traffic_decision_queue = << "RIGHT" >>
    /\ traffic_stats.signal = "LEFT"
    /\ traffic_stats.last_switch_time > 0

\* what the simulation owns: the vehicles, the lights and the controller's state
worldVars == <<vehicles, traffic_lights, current_phase, switching_phase,
               phase_start_time, yellow_start_time, emergency_vehicles,
               vehicle_counts>>

\* C12: no step of the perception thread and no dashboard query changes the
\* vehicle list, the lights, the phase, the switching flag, the timestamps, the
\* emergency list or the vehicle counts; the frame the perception thread took
\* is a value of its own, and working on it leaves all of them as they were.
C12_WorldOwnedByLoop ==
    [][(VideoProcessing \/ Query) => UNCHANGED worldVars]_vars

\* the perception thread has worked on a frame and sent a decision, and a query
\* has been served while the loop was inside an iteration, with a vehicle in
\* the world
C12_Witness ==
    /\ traffic_stats.signal = "RIGHT"
    /\ frame_queue = << >>
    /\ reply # << >>
    /\ reply[1].total > 0
    /\ pc \notin {"spawn", "frame"}
    /\ vehicles # << >>

\* C13: while switching_phase is set, no step changes current_phase or
\* yellow_start_time (no trigger restarts the yellow that is running or begins
\* a second one), and every update of the lights leaves all four yellow.
C13_OneTransition ==
    [][switching_phase =>
          /\ current_phase' = current_phase
          /\ yellow_start_time' = yellow_start_time
          /\ UpdateTrafficLights => AllYellow(traffic_lights')]_vars

\* the yellow started by an emergency vehicle that needs the other orientation
\* is running, the lights have been updated, and the trigger is still present
C13_Witness ==
    /\ switching_phase
    /\ AllYellow(traffic_lights)
    /\ emergency_vehicles # << >>
    /\ handle_emergency_vehicle(emergency_vehicles) # current_phase
    /\ now > yellow_start_time
    /\ ~YellowOver(now, yellow_start_time)

C15_BothGreenRecur ==
    /\ current_phase = "horizontal"
    /\ []<><<Tick(MaxTravel)>>_vars =>
          /\ []<>HorizontalGreen(traffic_lights)
          /\ []<>VerticalGreen(traffic_lights)

\* sum of the per-type per-side counts
CountSum(counts) ==
    counts["car"]["left"] + counts["car"]["right"]
    + counts["bus"]["left"] + counts["bus"]["right"]
    + counts["truck"]["left"] + counts["truck"]["right"]

\* C16 (as claimed): what a query returns is the world of one instant between
\* two updates, also when it is served while an iteration of the loop is in
\* progress: the per-type per-side counts it reports are the counts of the
\* vehicles it reports, so they add up to the reported total.
C16_QuerySnapshot ==
    reply # << >> => CountSum(reply[1].traffic_stats) = reply[1].total

\* the score of an orientation: its vehicles, those that wait counted three times
ClaimScore(vs, o) ==
    Cardinality({i \in 1..Len(vs) : Orientation(vs[i].direction) = o})
    + 2 * Cardinality({i \in 1..Len(vs) : /\ Orientation(vs[i].direction) = o
                                          /\ vs[i].waiting_time > 0})

\* C17: a call of the controller with no transition in flight, no emergency
\* vehicle and SIGNAL_MIN_TIME < elapsed <= SIGNAL_MAX_TIME starts the yellow
\* transition if and only if the score of the opposing orientation is more
\* than 1.2 times the score of the current one.
C17_ScoreRule ==
    [][(/\ CalculateSignalPhase
        /\ ~switching_phase
        /\ emergency_vehicles = << >>
        /\ now - phase_start_time > SIGNAL_MIN_TIME
        /\ now - phase_start_time <= SIGNAL_MAX_TIME)
          => (switching_phase' <=>
                10 * ClaimScore(vehicles, Opposite(current_phase))
                   > 12 * ClaimScore(vehicles, current_phase))]_vars

\* the controller has been applied at elapsed = SIGNAL_MAX_TIME to traffic
\* whose opposing score is exactly 1.2 times the current one, and has not
\* started a transition
C17_Witness ==
    /\ vehicles = EvenTraffic
    /\ current_phase = "horizontal"
    /\ emergency_vehicles = << >>
    /\ now - phase_start_time = SIGNAL_MAX_TIME
    /\ ret = current_phase
    /\ ~switching_phase

\* the emergency vehicle closest to the centre of the intersection travels on
\* the orientation that does not have the phase
ClosestNeedsOther ==
    \E i \in 1..Len(emergency_vehicles) :
        /\ \A j \in 1..Len(emergency_vehicles) :
              Abs(emergency_vehicles[i].x - WINDOW_WIDTH \div 2)
              + Abs(emergency_vehicles[i].y - WINDOW_HEIGHT \div 2)
                 <= Abs(emergency_vehicles[j].x - WINDOW_WIDTH \div 2)
                    + Abs(emergency_vehicles[j].y - WINDOW_HEIGHT \div 2)
        /\ Orientation(emergency_vehicles[i].direction) # current_phase

\* C18: while the emergency list is not empty, a call of the controller with
\* no transition in flight starts the yellow transition if and only if the
\* closest emergency vehicle needs the other orientation: neither the scores
\* nor the maximum green time start one.
C18_EmergencyOnly ==
    [][(/\ CalculateSignalPhase
        /\ emergency_vehicles # << >>
        /\ ~switching_phase)
          => (switching_phase' <=> ClosestNeedsOther)]_vars

\* the controller has been applied after the maximum green time, to traffic
\* whose scores ask for a switch, with an emergency vehicle on the orientation
\* that has the phase, and has started no transition
C18_Witness ==
    /\ emergency_vehicles # << >>
    /\ ~ClosestNeedsOther
    /\ now - phase_start_time > SIGNAL_MAX_TIME
    /\ 10 * ClaimScore(vehicles, Opposite(current_phase))
          > 12 * ClaimScore(vehicles, current_phase)
    /\ ret = current_phase
    /\ ~switching_phase

\* the displacement of one move: nominal speed along the travel direction
ClaimStep(v) ==
    CASE v.direction = "right" -> <<Speed(v.vehicle_type), 0>>
      [] v.direction = "left"  -> <<0 - Speed(v.vehicle_type), 0>>
      [] v.direction = "up"    -> <<0, 0 - Speed(v.vehicle_type)>>
      [] v.direction = "down"  -> <<0, Speed(v.vehicle_type)>>

\* C19: a move changes one vehicle only.  If it is stopped by the move, its
\* waiting time grows by one and its position stays; otherwise its waiting time
\* is 0 and one coordinate changes by its nominal speed (+x right, -x left,
\* -y up, +y down).  Its direction, its type, the other vehicles and the lights
\* stay as they were.
C19_MoveFrame ==
    [][VehicleMove =>
          /\ traffic_lights' = traffic_lights
          /\ Len(vehicles') = Len(vehicles)
          /\ \E i \in 1..Len(vehicles) :
                /\ \A j \in 1..Len(vehicles) : j # i => vehicles'[j] = vehicles[j]
                /\ vehicles'[i].id = vehicles[i].id
                /\ vehicles'[i].direction = vehicles[i].direction
                /\ vehicles'[i].vehicle_type = vehicles[i].vehicle_type
                /\ IF vehicles'[i].stopped
                   THEN /\ vehicles'[i].waiting_time = vehicles[i].waiting_time + 1
                        /\ vehicles'[i].x = vehicles[i].x
                        /\ vehicles'[i].y = vehicles[i].y
                   ELSE /\ vehicles'[i].waiting_time = 0
                        /\ vehicles'[i].x = vehicles[i].x + ClaimStep(vehicles[i])[1]
                        /\ vehicles'[i].y = vehicles[i].y + ClaimStep(vehicles[i])[2]]_vars

\* of two vehicles going up, the first has moved out of the places the
\* vehicles are put at and the second is as it was put
C19_Witness ==
    /\ Len(vehicles) = 2
    /\ vehicles[1].direction = "up"
    /\ AxisOf(vehicles[1]) \notin AxisInputs("up")
    /\ ~vehicles[1].stopped
    /\ vehicles[1].waiting_time = 0
    /\ ~vehicles[2].stopped
    /\ vehicles[2].waiting_time = 0

\* vehicle a is further along the direction both travel in than vehicle b
Ahead(a, b) ==
    CASE a.direction = "right" -> a.x > b.x
      [] a.direction = "left"  -> a.x < b.x
      [] a.direction = "up"    -> a.y < b.y
      [] a.direction = "down"  -> a.y > b.y

\* C20 (as claimed): of two vehicles of the same direction that are closer
\* than MIN_VEHICLE_SPACING + (sum of half-lengths), the one ahead is not
\* stopped because of the one behind it: with no red light and no third
\* vehicle in its way, the leading vehicle is not stopped.
C20_LeaderNotBlocked ==
    \A i \in 1..Len(vehicles), j \in 1..Len(vehicles) :
        (/\ i # j
         /\ vehicles[i].direction = vehicles[j].direction
         /\ TooClose(vehicles[i], vehicles[j])
         /\ Ahead(vehicles[i], vehicles[j])
         /\ ~should_stop(vehicles[i], traffic_lights)
         /\ \A k \in 1..Len(vehicles) : k \notin {i, j} => ~Conflict(vehicles[i], vehicles[k]))
            => ~vehicles[i].stopped

\* inside the square centred on the intersection whose side is 2 * ROAD_WIDTH
InClaimedBox(v) ==
    /\ Abs(v.x - WINDOW_WIDTH \div 2) <= ROAD_WIDTH
    /\ Abs(v.y - WINDOW_HEIGHT \div 2) <= ROAD_WIDTH

\* C21 (as claimed): a vehicle that no red light stops, with a vehicle of
\* another direction closer than MIN_VEHICLE_SPACING + (sum of half-lengths),
\* is stopped by a move if and only if both are inside the square centred on
\* the intersection whose side is 2 * ROAD_WIDTH.
C21_CrossConflictBox ==
    [][(VehicleMove /\ Len(vehicles) = 2) =>
          \A i \in 1..2 :
              (/\ vehicles'[i] # vehicles[i]
               /\ vehicles[i].direction # vehicles[3 - i].direction
               /\ TooClose(vehicles[i], vehicles[3 - i])
               /\ ~should_stop(vehicles[i], traffic_lights))
                 => (vehicles'[i].stopped <=>
                        InClaimedBox(vehicles[i]) /\ InClaimedBox(vehicles[3 - i]))]_vars

\* the square of the distance between vehicle v and the place (x, y)
SquaredDistance(v, x, y) == (v.x - x) * (v.x - x) + (v.y - y) * (v.y - y)

\* C22: the spawn step of an iteration leaves the vehicle list as it is or
\* appends one vehicle to it; the new vehicle is at the spawn point of its
\* direction, and no vehicle of the list is less than MIN_VEHICLE_SPACING away
\* from that point.
C22_SpawnAdmission ==
    [][StepSpawn(MaxTrafficTravel) =>
          \/ vehicles' = vehicles
          \/ /\ Len(vehicles') = Len(vehicles) + 1
             /\ SubSeq(vehicles', 1, Len(vehicles)) = vehicles
             /\ LET new == vehicles'[Len(vehicles')]
                IN  /\ <<new.x, new.y>> = SpawnPoint(new.direction)
                    /\ \A i \in 1..Len(vehicles) :
                          SquaredDistance(vehicles[i], new.x, new.y)
                             >= MIN_VEHICLE_SPACING * MIN_VEHICLE_SPACING]_vars

\* a vehicle has been spawned with another one exactly MIN_VEHICLE_SPACING
\* away from its spawn point
C22_Witness ==
    /\ pc = "lights"
    /\ Len(vehicles) = 2
    /\ vehicles[2].direction = vehicles[1].direction
    /\ SquaredDistance(vehicles[1], vehicles[2].x, vehicles[2].y)
          = MIN_VEHICLE_SPACING * MIN_VEHICLE_SPACING

\* within the margin of EXIT_MARGIN units around the window
WithinMargin(x, y) ==
    /\ 0 - EXIT_MARGIN <= x /\ x <= WINDOW_WIDTH + EXIT_MARGIN
    /\ 0 - EXIT_MARGIN <= y /\ y <= WINDOW_HEIGHT + EXIT_MARGIN

Ids(vs) == { vs[i].id : i \in 1..Len(vs) }

\* C23: after the move loop of an iteration every vehicle of the list is
\* within the margin (-100 <= x <= WINDOW_WIDTH + 100, -100 <= y <=
\* WINDOW_HEIGHT + 100); a vehicle is taken off the list by the loop exactly
\* when the move takes it past the margin; and the loop puts no vehicle on the
\* list.
C23_LifecycleBound ==
    [][StepMove =>
          /\ \A j \in 1..Len(vehicles') : WithinMargin(vehicles'[j].x, vehicles'[j].y)
          /\ Ids(vehicles') \subseteq Ids(vehicles)
          /\ \A i \in 1..Len(vehicles) :
                vehicles[i].id \notin Ids(vehicles')
                   => ~WithinMargin(vehicles[i].x + ClaimStep(vehicles[i])[1],
                                    vehicles[i].y + ClaimStep(vehicles[i])[2])]_vars

\* of two vehicles, one has stayed on the list exactly on the margin and the
\* other has been taken off it
C23_Witness ==
    /\ pc = "reset"
    /\ Len(vehicles) = 1
    /\ vehicles[1].id = 2
    /\ \/ Abs(vehicles[1].x - WINDOW_WIDTH \div 2) = WINDOW_WIDTH \div 2 + EXIT_MARGIN
       \/ Abs(vehicles[1].y - WINDOW_HEIGHT \div 2) = WINDOW_HEIGHT \div 2 + EXIT_MARGIN

RECURSIVE TotalWait(_)
TotalWait(vs) ==
    IF vs = << >> THEN 0 ELSE Head(vs).waiting_time + TotalWait(Tail(vs))

Congested(v) == v.waiting_time > CONGESTION_WAIT

\* the positions of the vehicles that have waited more than CONGESTION_WAIT
CongestionPoints(vs) ==
    LET jam == SelectSeq(vs, Congested)
    IN  [i \in 1..Len(jam) |-> <<jam[i].x, jam[i].y>>]

\* C25: after every iteration of the loop of run the analytics are those of the
\* vehicles of the list: average_wait_time is the mean of their waiting times
\* (average_wait_time * number of vehicles = sum of the waiting times) and
\* congestion_points holds the positions of exactly the vehicles that have
\* waited more than 30 iterations.
C25_AnalyticsFresh ==
    [][Tick(MaxTrafficTravel) =>
          /\ Len(vehicles') > 0
                => analytics'.average_wait_time * Len(vehicles') = TotalWait(vehicles')
          /\ analytics'.congestion_points = CongestionPoints(vehicles')]_vars

\* C26: an iteration of the loop that finds on the decision queue a value other
\* than 'horizontal' or 'vertical' changes neither the current phase, nor the
\* switching flag, nor the yellow-start timestamp, nor the state of a light,
\* leaves the value where it is, and runs to its last step: the vehicles are
\* counted and a frame is on the frame queue.
C26_OtherValueIgnored ==
    [][(/\ Tick(MaxTravel)
        /\ traffic_decision_queue # << >>
        /\ Head(traffic_decision_queue) \notin {"horizontal", "vertical"})
          => /\ UNCHANGED <<current_phase, switching_phase, yellow_start_time>>
             /\ \A i \in 1..Len(traffic_lights) :
                   traffic_lights'[i].state = traffic_lights[i].state
             /\ UNCHANGED traffic_decision_queue
             /\ vehicle_counts' = count_vehicles(vehicles')
             /\ frame_queue' # << >>]_vars

\* 'RIGHT' is on the decision queue and the loop has run an iteration since it
\* was put there: the perception step that put it emptied the frame queue
C26_Witness ==
    /\ traffic_decision_queue = << "RIGHT" >>
    /\ frame_queue # << >>
    /\ outputFrame # << >>
    /\ ~switching_phase
    /\ current_phase = "horizontal"

\* vehicles i and j of the list are stopped and check_collision of each reports
\* the other: neither moves in the next iteration, so the same holds after it
MutualBlock(vs) ==
    \E i \in 1..Len(vs), j \in 1..Len(vs) :
        /\ i # j
        /\ vs[i].stopped /\ vs[j].stopped
        /\ Conflict(vs[i], vs[j])
        /\ Conflict(vs[j], vs[i])

\* C27: no two vehicles block each other for good through the collision check:
\* no reachable state has two stopped vehicles each of which is in conflict
\* with the other (a state that, once entered, holds at every later iteration,
\* so that neither vehicle reaches the exit margin).
C27_NoMutualBlock == ~MutualBlock(vehicles)

C29_NoDecisionLost ==
    [][(VideoProcessing /\ traffic_stats'.signal # traffic_stats.signal)
          => traffic_decision_queue' = << traffic_stats'.signal >>]_vars

====
